---- MODULE Spec2Model ----
(***************************************************************************)
(* The orchestration core of MermaidDiagramMaker (src/src/components/      *)
(* MermaidDiagramMaker.tsx, the component defined at lines 726-1424): the  *)
(* source buffer, the debounced render effect, the external renderer, the  *)
(* AI generation call and the error banner, as one state machine.          *)
(*                                                                         *)
(* A step of the machine is one task of the browser's event loop: a UI     *)
(* event handler together with the React re-render and the effects it      *)
(* triggers, a timer callback, or the continuation of an async function    *)
(* after an await.                                                         *)
(***************************************************************************)
EXTENDS Integers, Sequences, FiniteSets, TLC

VARIABLES
    mermaidCode,      \* useState(defaultDiagram): the diagram source
    theme,            \* useTheme(): "light" or "dark"
    error,            \* useState<ErrorState>: [hasError, message]
    diagramHTML,      \* diagramRef.current.innerHTML: what the preview shows
    mermaidTheme,     \* the theme of the last successful mermaid.initialize
    timers,           \* pending setTimeout callbacks, in registration order
    renders,          \* mermaid.render calls awaiting their promise
    now,              \* the clock, in quanta of RefreshDelay milliseconds
    epoch,            \* number of runs of the render effect since mount
    calls,            \* history: every mermaid.render call made
    results,          \* history: every settled mermaid.render call
    bursts,           \* history: number of debounce windows opened
    blankFires,       \* history: debounce expiries that found a blank source
    apiKey,           \* useState(''): the credential in use
    provider,         \* useState('openai'): the active provider
    aiPrompt,         \* useState(''): the prompt input
    showApiKeyInput,  \* useState(false): the credential dialog is open
    isGenerating,     \* useState(false): the busy flag
    gens,             \* generateDiagramWithAI calls suspended at an await
    requests,         \* history: every fetch call made
    inputs,           \* history: number of form and button events
    storage,          \* localStorage: api_provider, api_key_<provider>, seen_tips
    showTips,         \* useState(() => !localStorage.getItem('seen_tips'))
    writes,           \* history: every localStorage.setItem, with its caller
    keyOf,            \* history: the provider apiKey was loaded or typed for
    scale,            \* useState(1): the zoom factor, in tenths
    offset,           \* useState({ x: 0, y: 0 }): the pan offset
    startPos,         \* useRef(null): the anchor of the drag in progress
    transform,        \* diagramRef.current.style.transform, as the DOM holds it
    exports,          \* downloadDiagram calls suspended at html2canvas
    last              \* history: the step taken last

renderVars == <<mermaidCode, theme, error, diagramHTML, mermaidTheme, timers,
                renders, now, epoch, calls, results, bursts, blankFires>>
genVars == <<apiKey, provider, aiPrompt, showApiKeyInput, isGenerating, gens,
             requests, inputs>>
keyVars == <<storage, showTips, writes, keyOf>>
viewVars == <<scale, offset, startPos, transform, exports>>
vars == <<renderVars, genVars, keyVars, viewVars, last>>

----------------------------------------------------------------------------
(* Bounds of the model. *)

MaxChanges == 3       \* source or theme changes after mount
MaxTicks == 7         \* clock quanta explored
MaxInputs == 5        \* events of the credential dialog, the prompt field and the AI and Fix buttons
MaxGens == 2          \* generation requests sent
SoloGens == 1         \* generation requests sent where only one is studied
MaxReads == 3         \* chunks read from one streamed response
MaxLines == 2         \* lines in one chunk
ZoomSpan == 1         \* zoom steps away from 1.0 where the zoom is not the subject

(* Program constants. *)

DebounceDelay == 300  \* setTimeout(renderDiagram, 300)
RefreshDelay == 100   \* setTimeout(() => setMermaidCode(mermaidCode), 100)

CenterDelay == 300    \* setTimeout(centerDiagram, 300)

DebounceTicks == DebounceDelay \div RefreshDelay

----------------------------------------------------------------------------
(* Texts: sequences of characters. "g" stands for a character of valid     *)
(* diagram syntax, "x" for one the renderer rejects, " " for white space.  *)

Chars == {"g", "x", " "}

\* !s.trim(): the text is empty or white space only
IsBlank(s) == \A i \in 1..Len(s) : s[i] = " "

\* the external renderer accepts the source (mermaid.render resolves)
RendererAccepts(code) == \A i \in 1..Len(code) : code[i] # "x"

defaultDiagram == <<"g">>

\* the texts the user types into the editor
EditTexts == {<<>>, <<" ">>, <<"g">>, <<"x">>, <<"g", "g">>}

Themes == {"light", "dark"}

RECURSIVE TrimLeft(_), TrimRight(_)
TrimLeft(s) == IF s # << >> /\ Head(s) = " " THEN TrimLeft(Tail(s)) ELSE s
TrimRight(s) ==
    IF s # << >> /\ s[Len(s)] = " " THEN TrimRight(SubSeq(s, 1, Len(s) - 1)) ELSE s

\* String.prototype.trim
Trim(s) == TrimRight(TrimLeft(s))

NoError == [hasError |-> FALSE, message |-> ""]
InitError == [hasError |-> TRUE, message |-> "Failed to initialize Mermaid"]

\* what mermaid.render rejects with: an Error object or another value, with
\* or without a diagnostic text
Rejections ==
    { [isError |-> e, message |-> m] : e \in BOOLEAN, m \in {"", "Parse error"} }

Providers == {"openai", "anthropic", "gemini", "openrouter"}

\* what localStorage holds under api_key_<provider>: nothing, or a saved key
StoredKeys == {<< >>, <<"k">>}

\* localStorage.getItem returns null
Absent == "absent"
NoKeys == [q \in Providers |-> << >>]
\* localStorage of a first visit, of a visitor who only dismissed the hint,
\* and of a visitor who saved a key for provider p
FirstRun == [api_provider |-> Absent, keys |-> NoKeys, seen_tips |-> FALSE]
TipsSeen == [api_provider |-> Absent, keys |-> NoKeys, seen_tips |-> TRUE]
Saved(p, k) == [api_provider |-> p, keys |-> [NoKeys EXCEPT ![p] = k],
                seen_tips |-> TRUE]
Storages ==
    {FirstRun, TipsSeen}
        \cup {Saved(p, k) : p \in Providers, k \in StoredKeys \ {<< >>}}

\* what the user types into the credential field and the prompt field
KeyTexts == {<< >>, <<" ">>, <<"k">>}
PromptTexts == {<<" ">>, <<"g">>}

EmptyHTML == [kind |-> "empty"]
SvgHTML(id, code, fill) == [kind |-> "svg", id |-> id, code |-> code, darkFill |-> fill]
PlaceholderHTML(msg) == [kind |-> "error", message |-> msg]

----------------------------------------------------------------------------
(* The viewport.  Scales are in tenths (10 is 1.0) and lengths in units of *)
(* 1/200 pixel, so that half the product of a length and two scales is an  *)
(* integer.                                                                *)

Px(n) == 200 * n

\* Math.min(.., 3) and Math.max(.., 0.2)
MaxScale == 30
MinScale == 2

\* container.getBoundingClientRect(): the size of the preview pane, in pixels
ContainerWidth == 8
ContainerHeight == 6
\* the size of the rendered <svg> before any transform, in pixels
SvgWidth == 4
SvgHeight == 2

NoDrag == [active |-> FALSE]

\* `translate(${offset.x}px, ${offset.y}px) scale(${scale})`
TransformOf(off, s) == [x |-> off.x, y |-> off.y, s |-> s]
\* 'translate(0px, 0px)': no scale function, the element is shown at 1.0
ExportTransform == [x |-> 0, y |-> 0, s |-> 10]

\* the style prop of the diagram element after a commit: React writes the
\* property when its value differs from the one of the commit before
CommitTransform(off, s) ==
    IF off = offset /\ s = scale THEN transform ELSE TransformOf(off, s)

\* setScale and setOffset, and the commit that follows
SetView(off, s) ==
    /\ offset' = off
    /\ scale' = s
    /\ transform' = CommitTransform(off, s)

\* centerDiagram, called as the closure of a render in which scale was s,
\* over the element content html: svg.getBoundingClientRect() is the box on
\* screen, the transform of the DOM applied
CenterDiagram(s, html) ==
    IF html.kind = "svg"
    THEN [x |-> (Px(ContainerWidth) - 2 * SvgWidth * transform.s * s) \div 2,
          y |-> (Px(ContainerHeight) - 2 * SvgHeight * transform.s * s) \div 2]
    ELSE offset

----------------------------------------------------------------------------
(* Effects run after a commit. *)

\* the effect left out: the banner survives the edit
ClearErrorEffectMissing(err) == err

\* "Clear error when code changes": runs when mermaidCode changed
ClearErrorEffect(err) == IF err.hasError THEN NoError ELSE err

\* a catch that only logs the failure
InitEffectSilent(err, ok) == err

\* mermaid.initialize in its try/catch: runs when theme changed
InitEffect(err, ok) == IF ok THEN err ELSE InitError

\* an effect that returns no cleanup: the superseded timer stays armed
RenderEffectCleanupMissing(tms) == tms

\* the cleanup of the previous render effect: clearTimeout(timeoutId)
RenderEffectCleanup(tms) ==
    SelectSeq(tms, LAMBDA t : ~(t.kind = "render" /\ t.epoch = epoch))

\* a throttle in place of the debounce: a change inside an open window
\* keeps the timer of the first one
RenderEffectThrottled(tms, code, th) ==
    IF \E i \in 1..Len(tms) : tms[i].kind = "render" THEN tms
    ELSE Append(tms, [kind |-> "render", due |-> now + DebounceTicks,
                      code |-> code, theme |-> th, epoch |-> epoch + 1,
                      scale |-> scale, by |-> [op |-> "source"]])

\* the render effect: cleanup of the previous run, then
\* setTimeout(renderDiagram, 300) with the values of this commit
RenderEffect(tms, code, th) ==
    Append(RenderEffectCleanup(tms),
           [kind |-> "render", due |-> now + DebounceTicks,
            code |-> code, theme |-> th, epoch |-> epoch + 1,
                      scale |-> scale, by |-> [op |-> "source"]])

RenderTimerPending(tms) == \E i \in 1..Len(tms) : tms[i].kind = "render"

\* a change of mermaidCode or theme opens a debounce window unless one is open
BurstsAfterChange == IF RenderTimerPending(timers) THEN bursts ELSE bursts + 1

\* setMermaidCode(v) and the effects of the commit: tms and err are the
\* timers and the error state the handler leaves
\* the new text added to the source in place of replacing it
SetMermaidCodeAppended(v, tms, err) ==
    /\ epoch < MaxChanges
    /\ now + DebounceTicks <= MaxTicks
    /\ mermaidCode' = mermaidCode \o v
    /\ error' = ClearErrorEffect(err)
    /\ timers' = RenderEffect(tms, mermaidCode \o v, theme)
    /\ epoch' = epoch + 1
    /\ bursts' = BurstsAfterChange

SetMermaidCode(v, tms, err) ==
    IF v # mermaidCode
    THEN /\ epoch < MaxChanges
         /\ now + DebounceTicks <= MaxTicks
         /\ mermaidCode' = v
         /\ error' = ClearErrorEffect(err)
         /\ timers' = RenderEffect(tms, v, theme)
         /\ epoch' = epoch + 1
         /\ bursts' = BurstsAfterChange
    ELSE /\ error' = err
         /\ timers' = tms
         /\ UNCHANGED <<mermaidCode, epoch, bursts>>

----------------------------------------------------------------------------
(* The effects that read localStorage. *)

\* localStorage.getItem('api_provider') || 'openai'
StoredProvider(st) ==
    IF st.api_provider = Absent THEN "openai" ELSE st.api_provider

\* the mount effect: if (storedKey) setApiKey(storedKey)
LoadProviderEffect(st, key) ==
    IF st.keys[StoredProvider(st)] # << >> THEN st.keys[StoredProvider(st)]
    ELSE key

\* a provider change that leaves the key field as it is
LoadKeyEffectMissing(st, p, key) == key

\* the effect on [provider]: setApiKey(storedKey || '')
LoadKeyEffect(st, p, key) == st.keys[p]

\* the effect on [provider] not run again for the stored provider
MountKeyOnce(st) == LoadKeyEffect(st, "openai", LoadProviderEffect(st, << >>))

\* apiKey once the mount effects have run: the first run of the effect on
\* [provider] sees the initial provider 'openai' and its setApiKey comes
\* last in the batch; the effect runs again when the stored provider differs
MountKey(st) ==
    LET first == LoadProviderEffect(st, << >>)
        second == LoadKeyEffect(st, "openai", first)
    IN  IF StoredProvider(st) # "openai"
        THEN LoadKeyEffect(st, StoredProvider(st), second)
        ELSE second

\* the effect on [showTips]: if (!showTips) localStorage.setItem('seen_tips', '1')
TipsEffect(st, tips) == IF tips THEN st ELSE [st EXCEPT !.seen_tips = TRUE]
TipsWrites(tips, by) ==
    IF tips THEN {} ELSE {[key |-> "seen_tips", by |-> by]}

----------------------------------------------------------------------------
Init ==
    /\ mermaidCode = defaultDiagram
    /\ theme \in Themes
    /\ \E ok \in BOOLEAN :
          /\ error = InitEffect(NoError, ok)
          /\ mermaidTheme = IF ok THEN theme ELSE "none"
    /\ diagramHTML = EmptyHTML
    /\ timers = << [kind |-> "render", due |-> DebounceTicks,
                    code |-> defaultDiagram, theme |-> theme, epoch |-> 0,
                    scale |-> 10, by |-> [op |-> "mount"]] >>
    /\ renders = << >>
    /\ now = 0
    /\ epoch = 0
    /\ calls = << >>
    /\ results = << >>
    /\ bursts = 1
    /\ blankFires = 0
    /\ storage \in Storages
    /\ provider = StoredProvider(storage)
    /\ apiKey = MountKey(storage)
    /\ keyOf = provider
    /\ showTips = ~storage.seen_tips
    /\ writes = TipsWrites(showTips, "mount")
    /\ aiPrompt = << >>
    /\ showApiKeyInput = FALSE
    /\ isGenerating = FALSE
    /\ gens = << >>
    /\ requests = << >>
    /\ inputs = 0
    /\ scale = 10
    /\ offset = [x |-> 0, y |-> 0]
    /\ startPos = NoDrag
    /\ transform = TransformOf(offset, scale)
    /\ exports = << >>
    /\ last = [op |-> "mount"]

----------------------------------------------------------------------------
(* Editor onChange: setMermaidCode(value || '').  Setting the state to the *)
(* value it has is a no-op in React, so only changes are steps.            *)
EditCode(v) ==
    /\ v # mermaidCode
    /\ SetMermaidCode(v, timers, error)
    /\ UNCHANGED keyVars
    /\ UNCHANGED viewVars
    /\ last' = [op |-> "edit", errorBefore |-> error]
    /\ UNCHANGED <<theme, diagramHTML, mermaidTheme, renders, now, calls,
                   results, blankFires>>
    /\ UNCHANGED genVars

\* history: the timer armed last was armed by a theme change, whose
\* mermaid.initialize returned or threw
ArmedByTheme(tms, ok) ==
    [tms EXCEPT ![Len(tms)].by = [op |-> "theme", initOk |-> ok]]

(* Theme button: setTheme(theme === 'dark' ? 'light' : 'dark'); the        *)
(* initialize effect and the render effect both depend on theme.           *)
ToggleTheme(ok) ==
    /\ epoch < MaxChanges
    /\ now + DebounceTicks <= MaxTicks
    /\ theme' = IF theme = "dark" THEN "light" ELSE "dark"
    /\ error' = InitEffect(error, ok)
    /\ mermaidTheme' = IF ok THEN theme' ELSE mermaidTheme
    /\ timers' = ArmedByTheme(RenderEffect(timers, mermaidCode, theme'), ok)
    /\ epoch' = epoch + 1
    /\ bursts' = BurstsAfterChange
    /\ UNCHANGED keyVars
    /\ UNCHANGED viewVars
    /\ last' = [op |-> "theme", errorBefore |-> error, initOk |-> ok]
    /\ UNCHANGED <<mermaidCode, diagramHTML, renders, now, calls, results,
                   blankFires>>
    /\ UNCHANGED genVars

----------------------------------------------------------------------------
(* Timers.  A timer fires when it is due; among the due ones the browser   *)
(* runs the one with the earliest deadline, registration order breaking    *)
(* ties.  Time does not pass while a timer is due; the clock is advanced   *)
(* only while a timer is pending (idle time changes nothing the program    *)
(* reads but Date.now(), and its absence only brings two reads closer).    *)

Due(tms) == { i \in 1..Len(tms) : tms[i].due <= now }

NextTimer(tms) ==
    CHOOSE i \in Due(tms) :
        \A j \in Due(tms) :
            \/ tms[i].due < tms[j].due
            \/ (tms[i].due = tms[j].due /\ i <= j)

RemoveAt(s, i) == SubSeq(s, 1, i - 1) \o SubSeq(s, i + 1, Len(s))

\* setTimeout runs its callback once
TimersAfterFire(tms, i) == RemoveAt(tms, i)

\* an identifier from a clock coarser than the debounce delay
DiagramIdCoarse == now \div (DebounceTicks + 1)

\* `mermaid-diagram-${Date.now()}`
DiagramId == now

\* renderDiagram up to its await: the guard, setError, clearing the element,
\* Date.now() as identifier, the mermaid.render call
RenderDiagramStart(t) ==
    IF ~IsBlank(t.code)
    THEN /\ error' = NoError
         /\ diagramHTML' = EmptyHTML
         /\ renders' = Append(renders, [call |-> Len(calls) + 1, id |-> DiagramId,
                                        code |-> t.code, theme |-> t.theme,
                                        scale |-> t.scale])
         /\ calls' = Append(calls, [id |-> DiagramId, code |-> t.code,
                                    theme |-> t.theme,
                                    epoch |-> t.epoch, latest |-> mermaidCode,
                                    atEpoch |-> epoch])
         /\ UNCHANGED blankFires
    ELSE /\ blankFires' = blankFires + 1
         /\ UNCHANGED <<error, diagramHTML, renders, calls>>

TimerFire ==
    /\ Due(timers) # {}
    /\ timers[NextTimer(timers)].kind # "refresh"
    /\ LET i == NextTimer(timers)
           t == timers[i]
       IN  /\ timers' = TimersAfterFire(timers, i)
           /\ IF t.kind = "render"
              THEN /\ RenderDiagramStart(t)
                   /\ UNCHANGED keyVars
                   /\ UNCHANGED viewVars
                   /\ last' = [op |-> "renderStart", blank |-> IsBlank(t.code),
                               errorBefore |-> error, timer |-> t,
                               callsBefore |-> calls]
              ELSE /\ UNCHANGED <<error, diagramHTML, renders, calls, blankFires>>
                   /\ UNCHANGED keyVars
                   /\ SetView(CenterDiagram(t.scale, diagramHTML), scale)
                   /\ UNCHANGED <<startPos, exports>>
                   /\ last' = [op |-> "center", timer |-> t,
                               html |-> diagramHTML,
                               direct |-> last.op = "resetView"]
    /\ UNCHANGED <<mermaidCode, theme, mermaidTheme, now, epoch, results, bursts>>
    /\ UNCHANGED genVars

\* setTimeout(() => setMermaidCode(mermaidCode), 100): the source of the
\* render in which the refresh button was clicked
RefreshTimer ==
    [kind |-> "refresh", due |-> now + RefreshDelay \div RefreshDelay,
     code |-> mermaidCode]

\* the refresh button: the element is cleared, a blank is appended to the
\* source, the restore is deferred
RefreshDiagram ==
    /\ inputs < MaxInputs
    /\ inputs' = inputs + 1
    /\ diagramHTML' = EmptyHTML
    /\ SetMermaidCode(mermaidCode \o <<" ">>, Append(timers, RefreshTimer), error)
    /\ UNCHANGED keyVars
    /\ UNCHANGED viewVars
    /\ last' = [op |-> "refresh", codeBefore |-> mermaidCode,
                errorBefore |-> error]
    /\ UNCHANGED <<theme, mermaidTheme, renders, now, calls, results,
                   blankFires>>
    /\ UNCHANGED <<apiKey, provider, aiPrompt, showApiKeyInput, isGenerating,
                   gens, requests>>

\* the deferred callback of refreshDiagram runs
RefreshRestore ==
    /\ Due(timers) # {}
    /\ timers[NextTimer(timers)].kind = "refresh"
    /\ LET i == NextTimer(timers)
           t == timers[i]
       IN  /\ SetMermaidCode(t.code, TimersAfterFire(timers, i), error)
           /\ UNCHANGED keyVars
           /\ UNCHANGED viewVars
           /\ last' = [op |-> "refreshDone", codeBefore |-> mermaidCode,
                       restored |-> t.code, errorBefore |-> error]
    /\ UNCHANGED <<theme, diagramHTML, mermaidTheme, renders, now, calls,
                   results, blankFires>>
    /\ UNCHANGED genVars

Tick ==
    /\ now < MaxTicks
    /\ timers # << >>
    /\ Due(timers) = {}
    /\ now' = now + 1
    /\ UNCHANGED keyVars
    /\ UNCHANGED viewVars
    /\ last' = [op |-> "tick"]
    /\ UNCHANGED <<mermaidCode, theme, error, diagramHTML, mermaidTheme, timers,
                   renders, epoch, calls, results, bursts, blankFires>>
    /\ UNCHANGED genVars

----------------------------------------------------------------------------
(* The external renderer settles a pending call.  Calls are independent    *)
(* promises: they settle in any order.                                     *)

\* the catch branch's message
RenderErrorMessage(rej) ==
    IF rej.isError THEN rej.message ELSE "Invalid Mermaid syntax"

\* a catch branch that only logs
RenderFailureLogged(errorMessage) == NoError

\* the catch branch's setError
RenderFailure(errorMessage) == [hasError |-> TRUE, message |-> errorMessage]

\* renderDiagram after its await, mermaid.render resolved
RenderResolve(i) ==
    /\ i \in 1..Len(renders)
    /\ RendererAccepts(renders[i].code)
    /\ LET r == renders[i]
       IN  /\ diagramHTML' = SvgHTML(r.id, r.code, r.theme = "dark")
           /\ results' = Append(results, [call |-> r.call, ok |-> TRUE])
           /\ UNCHANGED keyVars
           /\ SetView(CenterDiagram(r.scale, diagramHTML'), scale)
           /\ UNCHANGED <<startPos, exports>>
           /\ last' = [op |-> "renderOk", call |-> r.call, errorBefore |-> error]
    /\ renders' = RemoveAt(renders, i)
    /\ UNCHANGED <<mermaidCode, theme, error, mermaidTheme, timers, now, epoch,
                   calls, bursts, blankFires>>
    /\ UNCHANGED genVars

\* renderDiagram's catch branch, mermaid.render rejected with rej
RenderReject(i, rej) ==
    /\ i \in 1..Len(renders)
    /\ ~RendererAccepts(renders[i].code)
    /\ LET r == renders[i]
           errorMessage == RenderErrorMessage(rej)
       IN  /\ error' = RenderFailure(errorMessage)
           /\ diagramHTML' = PlaceholderHTML(errorMessage)
           /\ results' = Append(results, [call |-> r.call, ok |-> FALSE])
           /\ UNCHANGED keyVars
           /\ UNCHANGED viewVars
           /\ last' = [op |-> "renderFail", call |-> r.call, rejection |-> rej,
                       codeBefore |-> mermaidCode, errorBefore |-> error]
    /\ renders' = RemoveAt(renders, i)
    /\ UNCHANGED <<mermaidCode, theme, mermaidTheme, timers, now, epoch, calls,
                   bursts, blankFires>>
    /\ UNCHANGED genVars

----------------------------------------------------------------------------
(* The credential dialog and the prompt field. *)

\* Key button: setShowApiKeyInput(true)
OpenKeyDialog ==
    /\ inputs < MaxInputs
    /\ ~showApiKeyInput
    /\ showApiKeyInput' = TRUE
    /\ inputs' = inputs + 1
    /\ UNCHANGED keyVars
    /\ UNCHANGED viewVars
    /\ last' = [op |-> "openDialog"]
    /\ UNCHANGED <<renderVars, apiKey, provider, aiPrompt, isGenerating, gens,
                   requests>>

\* the dialog's X and Cancel buttons: setShowApiKeyInput(false)
CloseKeyDialog ==
    /\ inputs < MaxInputs
    /\ showApiKeyInput
    /\ showApiKeyInput' = FALSE
    /\ inputs' = inputs + 1
    /\ UNCHANGED keyVars
    /\ UNCHANGED viewVars
    /\ last' = [op |-> "closeDialog"]
    /\ UNCHANGED <<renderVars, apiKey, provider, aiPrompt, isGenerating, gens,
                   requests>>

\* the dialog's key field: setApiKey(e.target.value)
TypeApiKey(v) ==
    /\ inputs < MaxInputs
    /\ showApiKeyInput
    /\ v # apiKey
    /\ apiKey' = v
    /\ inputs' = inputs + 1
    /\ keyOf' = provider
    /\ UNCHANGED <<storage, showTips, writes>>
    /\ UNCHANGED viewVars
    /\ last' = [op |-> "typeKey"]
    /\ UNCHANGED <<renderVars, provider, aiPrompt, showApiKeyInput,
                   isGenerating, gens, requests>>

\* the prompt field: setAiPrompt(e.target.value)
TypePrompt(v) ==
    /\ inputs < MaxInputs
    /\ v # aiPrompt
    /\ aiPrompt' = v
    /\ inputs' = inputs + 1
    /\ UNCHANGED keyVars
    /\ UNCHANGED viewVars
    /\ last' = [op |-> "typePrompt"]
    /\ UNCHANGED <<renderVars, apiKey, provider, showApiKeyInput, isGenerating,
                   gens, requests>>

\* the dialog's provider select: setProvider(val), then the effect on
\* [provider]
SetProvider(p) ==
    /\ inputs < MaxInputs
    /\ showApiKeyInput
    /\ p # provider
    /\ provider' = p
    /\ apiKey' = LoadKeyEffect(storage, p, apiKey)
    /\ keyOf' = IF apiKey' = storage.keys[p] THEN p ELSE keyOf
    /\ inputs' = inputs + 1
    /\ UNCHANGED viewVars
    /\ last' = [op |-> "setProvider"]
    /\ UNCHANGED <<renderVars, aiPrompt, showApiKeyInput, isGenerating, gens,
                   requests, storage, showTips, writes>>

\* the key stored under every provider's name
SaveWritesEverywhere(st, p, key, n) ==
    [st EXCEPT !.keys = IF n >= 1 THEN [q \in Providers |-> key] ELSE @,
               !.api_provider = IF n >= 2 THEN p ELSE @]

\* the two setItem calls of saveApiKey, of which n complete before one throws
SaveWrites(st, p, key, n) ==
    [st EXCEPT !.keys[p] = IF n >= 1 THEN key ELSE @,
               !.api_provider = IF n >= 2 THEN p ELSE @]

\* the dialog's Save button: saveApiKey
SaveApiKey(n) ==
    /\ inputs < MaxInputs
    /\ showApiKeyInput
    /\ IF IsBlank(apiKey)
       THEN /\ n = 2
            /\ UNCHANGED <<storage, writes, showApiKeyInput>>
       ELSE /\ storage' = SaveWrites(storage, provider, Trim(apiKey), n)
            /\ writes' = writes
                  \cup (IF n >= 1 THEN {[key |-> "api_key", by |-> "saveApiKey"]} ELSE {})
                  \cup (IF n >= 2 THEN {[key |-> "api_provider", by |-> "saveApiKey"]} ELSE {})
            /\ showApiKeyInput' = IF n = 2 THEN FALSE ELSE showApiKeyInput
    /\ inputs' = inputs + 1
    /\ UNCHANGED viewVars
    /\ last' = [op |-> "save",
                outcome |-> IF IsBlank(apiKey) THEN "nothing"
                            ELSE IF n = 2 THEN "API Key Saved" ELSE "Save Failed",
                key |-> apiKey, provider |-> provider, before |-> storage]
    /\ UNCHANGED <<renderVars, apiKey, provider, aiPrompt, isGenerating, gens,
                   requests, showTips, keyOf>>

\* the hint over the AI button closes: onOpenChange(false), setShowTips(false),
\* then the effect on [showTips]
DismissTips ==
    /\ inputs < MaxInputs
    /\ showTips
    /\ showTips' = FALSE
    /\ storage' = TipsEffect(storage, FALSE)
    /\ writes' = writes \cup TipsWrites(FALSE, "dismissTips")
    /\ inputs' = inputs + 1
    /\ UNCHANGED viewVars
    /\ last' = [op |-> "dismissTips"]
    /\ UNCHANGED <<renderVars, apiKey, provider, aiPrompt, showApiKeyInput,
                   isGenerating, gens, requests, keyOf>>

\* the page is loaded again: the component mounts anew over the same
\* localStorage; what the old page awaited is gone with it
Reload(ok) ==
    /\ inputs < MaxInputs
    /\ now + DebounceTicks <= MaxTicks
    /\ mermaidCode' = defaultDiagram
    /\ error' = InitEffect(NoError, ok)
    /\ mermaidTheme' = IF ok THEN theme ELSE "none"
    /\ diagramHTML' = EmptyHTML
    /\ timers' = << [kind |-> "render", due |-> now + DebounceTicks,
                     code |-> defaultDiagram, theme |-> theme, epoch |-> 0,
                     scale |-> 10, by |-> [op |-> "mount"]] >>
    /\ renders' = << >>
    /\ epoch' = 0
    /\ calls' = << >>
    /\ results' = << >>
    /\ bursts' = 1
    /\ blankFires' = 0
    /\ provider' = StoredProvider(storage)
    /\ apiKey' = MountKey(storage)
    /\ keyOf' = StoredProvider(storage)
    /\ showTips' = ~storage.seen_tips
    /\ writes' = writes \cup TipsWrites(~storage.seen_tips, "mount")
    /\ aiPrompt' = << >>
    /\ showApiKeyInput' = FALSE
    /\ isGenerating' = FALSE
    /\ gens' = << >>
    /\ inputs' = inputs + 1
    /\ scale' = 10
    /\ offset' = [x |-> 0, y |-> 0]
    /\ startPos' = NoDrag
    /\ transform' = TransformOf(offset', scale')
    /\ exports' = << >>
    /\ last' = [op |-> "reload", before |-> storage]
    /\ UNCHANGED <<theme, now, requests, storage>>

----------------------------------------------------------------------------
(* generateDiagramWithAI(promptOverride) up to its first await. *)

\* the values a caller passes as promptOverride
UndefinedArg == [kind |-> "undefined"]
EventArg == [kind |-> "event"]             \* onClick's argument
TextArg(t) == [kind |-> "text", text |-> t]
FixArg(msg, code) == [kind |-> "fix", error |-> msg, code |-> code]

\* promptOverride ?? aiPrompt
PromptOf(promptOverride) ==
    IF promptOverride.kind = "undefined" THEN TextArg(aiPrompt) ELSE promptOverride

\* prompt.trim is a function: the value is a string
HasTrim(prompt) == prompt.kind \in {"text", "fix"}

\* !prompt.trim(), for a string; the fix prompt has fixed words in it
PromptIsBlank(prompt) == prompt.kind = "text" /\ IsBlank(prompt.text)

\* the switch on provider: url, headers, body
BuildRequest(p, key, prompt) ==
    [endpoint |-> p,
     credential |-> key,
     stream |-> (p = "openai"),
     hasSystem |-> (p # "gemini"),
     prompt |-> IF p = "gemini" THEN [kind |-> "none"] ELSE prompt]

\* the credential check without its trim: if (!apiKey)
GenerateOutcomeUntrimmed(promptOverride) ==
    IF apiKey = << >> THEN "API Key Required"
    ELSE IF ~HasTrim(PromptOf(promptOverride)) THEN "TypeError"
    ELSE IF PromptIsBlank(PromptOf(promptOverride)) THEN "Prompt Required"
    ELSE "fetch"

\* the outcome of the checks that precede the try block
GenerateOutcome(promptOverride) ==
    IF IsBlank(apiKey) THEN "API Key Required"
    ELSE IF ~HasTrim(PromptOf(promptOverride)) THEN "TypeError"
    ELSE IF PromptIsBlank(PromptOf(promptOverride)) THEN "Prompt Required"
    ELSE "fetch"

GenerateDiagramWithAI(promptOverride, via) ==
    LET outcome == GenerateOutcome(promptOverride)
        prompt == PromptOf(promptOverride)
        request == BuildRequest(provider, apiKey, prompt)
    IN  /\ inputs < MaxInputs
        /\ inputs' = inputs + 1
        /\ showApiKeyInput' =
              IF outcome = "API Key Required" THEN TRUE ELSE showApiKeyInput
        /\ IF outcome = "fetch"
           THEN /\ Len(requests) < MaxGens
                /\ isGenerating' = TRUE
                /\ error' = NoError
                /\ requests' = Append(requests, request)
                /\ gens' = Append([k \in 1..Len(gens) |->
                                      [gens[k] EXCEPT !.overlap = TRUE]],
                                  [id |-> Len(requests) + 1,
                                   started |-> mermaidCode,
                                   overlap |-> gens # << >>,
                                   stream |-> request.stream,
                                   phase |-> "fetch",
                                   result |-> << >>,
                                   updates |-> << >>,
                                   delivered |-> << >>,
                                   reads |-> 0,
                                   sawDone |-> FALSE,
                                   clean |-> TRUE,
                                   scale |-> scale])
           ELSE UNCHANGED <<isGenerating, error, requests, gens>>
        /\ UNCHANGED keyVars
        /\ UNCHANGED viewVars
        /\ last' = [op |-> "generate", via |-> via, outcome |-> outcome,
                    keyBlank |-> IsBlank(apiKey),
                    typedBlank |-> IsBlank(aiPrompt),
                    codeBefore |-> mermaidCode,
                    errorBefore |-> error,
                    sentBefore |-> Len(requests),
                    dialogBefore |-> showApiKeyInput,
                    keyOf |-> keyOf]
        /\ UNCHANGED <<mermaidCode, theme, diagramHTML, mermaidTheme, timers,
                       renders, now, epoch, calls, results, bursts, blankFires,
                       apiKey, provider, aiPrompt>>

\* the AI button: onClick={generateDiagramWithAI}, disabled={isGenerating}
ClickAI ==
    /\ ~isGenerating
    /\ GenerateDiagramWithAI(EventArg, "button")

\* the Fix button of the error banner: fixDiagramWithAI
FixDiagramWithAI ==
    /\ error.hasError
    /\ GenerateDiagramWithAI(FixArg(error.message, mermaidCode), "fix")

----------------------------------------------------------------------------
(* generateDiagramWithAI after its awaits. *)

\* the text parseResponse finds in a buffered response body, before its trim
ResponseTexts == {<< >>, <<" ">>, <<" ", "g">>, <<"x">>}

\* a response with a non-success status: its status and error.message
HttpErrors == {[status |-> "401", message |-> "Incorrect API key"],
               [status |-> "500", message |-> ""]}

(* The lines of a streamed chunk (chunk.split('\n')):                      *)
(*   data     data: {json}, a complete record with text delta d            *)
(*   done     data: [DONE], the sentinel                                   *)
(*   blank    the empty line that separates records                        *)
(*   cutHead  data: {jso   the head of a record the transport cut in two   *)
(*   cutTail  n}           the tail of such a record                       *)
Deltas == {<< >>, <<"g">>, <<"x">>}
Lines ==
    {[t |-> "data", d |-> d] : d \in Deltas}
        \cup {[t |-> k, d |-> << >>] : k \in {"done", "blank", "cutHead", "cutTail"}}
Chunks == UNION {[1..n -> Lines] : n \in 1..MaxLines}

\* line.startsWith('data: ')
StartsWithData(l) == l.t \in {"data", "done", "cutHead"}
\* JSON.parse(dataStr) returns
Parses(l) == l.t = "data"

\* the delta alone shown in place of the accumulated text
StreamUpdateDelta(result, text) == text

\* the value the loop passes to setMermaidCode for a record
StreamUpdate(result, text) == result \o text

\* the for loop over the lines of one chunk: acc is [result, updates], the
\* accumulated text and the values passed to setMermaidCode
RECURSIVE ProcessLines(_, _)
ProcessLines(lines, acc) ==
    IF lines = << >> THEN acc
    ELSE LET l == Head(lines)
         IN  IF ~StartsWithData(l) THEN ProcessLines(Tail(lines), acc)
             ELSE IF l.t = "done" THEN acc
             ELSE IF ~Parses(l) THEN ProcessLines(Tail(lines), acc)
             ELSE ProcessLines(Tail(lines),
                      [result |-> acc.result \o l.d,
                       updates |-> Append(acc.updates,
                                          StreamUpdate(acc.result, l.d))])

\* setTimeout(centerDiagram, 300) after a successful generation: the
\* centerDiagram of the render in which the generation was started
CenterTimer(s) ==
    [kind |-> "center", due |-> now + CenterDelay \div RefreshDelay,
     scale |-> s, via |-> "generate"]

\* the catch block and the finally block
GenCatch(i, errorMessage, cause) ==
    /\ error' = [hasError |-> TRUE,
                 message |-> "AI Generation Failed: " \o errorMessage]
    /\ isGenerating' = FALSE
    /\ gens' = RemoveAt(gens, i)
    /\ UNCHANGED keyVars
    /\ UNCHANGED viewVars
    /\ last' = [op |-> "genFail", gen |-> gens[i].id, message |-> errorMessage,
                cause |-> cause, started |-> gens[i].started,
                codeBefore |-> mermaidCode, promptBefore |-> aiPrompt,
                timersBefore |-> timers]
    /\ UNCHANGED <<mermaidCode, theme, diagramHTML, mermaidTheme, timers,
                   renders, now, epoch, calls, results, bursts, blankFires,
                   apiKey, provider, aiPrompt, showApiKeyInput, requests, inputs>>

\* fetch rejects: the request never got an answer
FetchReject(i) ==
    /\ i \in 1..Len(gens)
    /\ gens[i].phase = "fetch"
    /\ GenCatch(i, "Failed to fetch", [kind |-> "transport"])

\* an error text without the status and the provider's words
ApiErrorMessageBare(e) == "API Error"

\* `API Error: ${response.status} - ${errorData.error?.message || 'Unknown error'}`
ApiErrorMessage(e) ==
    "API Error: " \o e.status \o " - "
        \o (IF e.message = "" THEN "Unknown error" ELSE e.message)

\* fetch resolves with a non-success status
FetchHttpError(i, e) ==
    /\ i \in 1..Len(gens)
    /\ gens[i].phase = "fetch"
    /\ GenCatch(i, ApiErrorMessage(e), [kind |-> "http", response |-> e])

\* fetch resolves with a success status: useStream && response.body
FetchOk(i, hasBody) ==
    /\ i \in 1..Len(gens)
    /\ gens[i].phase = "fetch"
    /\ gens' = [gens EXCEPT ![i].phase =
                   IF gens[i].stream /\ hasBody THEN "stream" ELSE "json"]
    /\ UNCHANGED keyVars
    /\ UNCHANGED viewVars
    /\ last' = [op |-> "fetchOk", gen |-> gens[i].id]
    /\ UNCHANGED <<renderVars, apiKey, provider, aiPrompt, showApiKeyInput,
                   isGenerating, requests, inputs>>

\* reader.read() resolves with a chunk
StreamRead(i, chunk) ==
    /\ i \in 1..Len(gens)
    /\ gens[i].phase = "stream"
    /\ gens[i].reads < MaxReads
    /\ LET g == gens[i]
           acc == ProcessLines(chunk, [result |-> g.result, updates |-> << >>])
           data == SelectSeq(chunk, LAMBDA l : l.t = "data")
           cut == \E k \in 1..Len(chunk) : chunk[k].t \in {"cutHead", "cutTail"}
           dataAfterDone ==
               \E k \in 1..Len(chunk) :
                   /\ chunk[k].t = "data"
                   /\ g.sawDone \/ \E j \in 1..(k - 1) : chunk[j].t = "done"
       IN  /\ SetMermaidCode(IF acc.updates = << >> THEN mermaidCode
                              ELSE acc.updates[Len(acc.updates)],
                             timers, error)
           /\ gens' = [gens EXCEPT ![i] =
                  [g EXCEPT !.result = acc.result,
                            !.updates = @ \o acc.updates,
                            !.delivered = @ \o [k \in 1..Len(data) |-> data[k].d],
                            !.reads = @ + 1,
                            !.sawDone = @ \/ \E k \in 1..Len(chunk) : chunk[k].t = "done",
                            !.clean = @ /\ ~cut /\ ~dataAfterDone]]
           /\ UNCHANGED keyVars
           /\ UNCHANGED viewVars
           /\ last' = [op |-> "streamRead", gen |-> g.id,
                       wrote |-> Len(acc.updates),
                       afterDone |-> g.sawDone,
                       dropped |-> Cardinality({k \in 1..Len(chunk) :
                           /\ chunk[k].t = "cutHead"
                           /\ ~g.sawDone
                           /\ \A j \in 1..(k - 1) : chunk[j].t # "done"})]
    /\ UNCHANGED <<theme, diagramHTML, mermaidTheme, renders, now, calls,
                   results, blankFires, apiKey, provider, aiPrompt,
                   showApiKeyInput, isGenerating, requests, inputs>>

\* what follows the if/else on success: setAiPrompt(''), the deferred
\* centerDiagram, the success toast, and finally setIsGenerating(false)
GenSucceed(i, v) ==
    /\ SetMermaidCode(v, Append(timers, CenterTimer(gens[i].scale)), error)
    /\ aiPrompt' = << >>
    /\ isGenerating' = FALSE
    /\ gens' = RemoveAt(gens, i)
    /\ UNCHANGED <<theme, diagramHTML, mermaidTheme, renders, now, calls,
                   results, blankFires, apiKey, provider, showApiKeyInput,
                   requests, inputs>>

\* reader.read() resolves with done
StreamDone(i) ==
    /\ i \in 1..Len(gens)
    /\ gens[i].phase = "stream"
    /\ GenSucceed(i, mermaidCode)
    /\ UNCHANGED keyVars
    /\ UNCHANGED viewVars
    /\ last' = [op |-> "streamDone", gen |-> gens[i].id,
                updates |-> gens[i].updates, delivered |-> gens[i].delivered,
                clean |-> gens[i].clean, text |-> gens[i].result,
                started |-> gens[i].started, codeBefore |-> mermaidCode,
                overlap |-> gens[i].overlap, others |-> Len(gens) - 1]

\* reader.read() rejects: the connection broke
StreamReject(i) ==
    /\ i \in 1..Len(gens)
    /\ gens[i].phase = "stream"
    /\ GenCatch(i, "network error", [kind |-> "transport"])

\* response.json() resolves; parseResponse extracts and trims the text
JsonResolve(i, text) ==
    /\ i \in 1..Len(gens)
    /\ gens[i].phase = "json"
    /\ LET generatedCode == Trim(text)
       IN  IF generatedCode = << >>
           THEN GenCatch(i, "No diagram code generated", [kind |-> "empty"])
           ELSE /\ GenSucceed(i, generatedCode)
                /\ UNCHANGED keyVars
                /\ UNCHANGED viewVars
                /\ last' = [op |-> "genOk", gen |-> gens[i].id,
                            text |-> generatedCode,
                            started |-> gens[i].started,
                            codeBefore |-> mermaidCode,
                            timersBefore |-> timers,
                            overlap |-> gens[i].overlap,
                            others |-> Len(gens) - 1]

\* response.json() rejects: the body is not JSON
JsonReject(i) ==
    /\ i \in 1..Len(gens)
    /\ gens[i].phase = "json"
    /\ GenCatch(i, "Unexpected end of JSON input", [kind |-> "transport"])

----------------------------------------------------------------------------
(* The viewport: zoom buttons, the wheel, the reset button, the drag.      *)

\* history: the viewport as the state and the DOM hold it
ViewOf == [scale |-> scale, offset |-> offset, transform |-> transform]

\* a zoom with no upper limit
ZoomInScaleUnclamped(s) == s + 1

\* Math.min(s + 0.1, 3)
ZoomInScale(s) == IF s + 1 < MaxScale THEN s + 1 ELSE MaxScale

\* Math.max(s - 0.1, 0.2)
ZoomOutScale(s) == IF s - 1 > MinScale THEN s - 1 ELSE MinScale

\* handleWheel: delta = e.deltaY > 0 ? -0.1 : 0.1;
\* Math.min(Math.max(s + delta, 0.2), 3)
WheelScale(s, deltaY) ==
    LET delta == IF deltaY > 0 THEN -1 ELSE 1
        low == IF s + delta > MinScale THEN s + delta ELSE MinScale
    IN  IF low < MaxScale THEN low ELSE MaxScale

\* the zoom-in button
ZoomIn ==
    /\ SetView(offset, ZoomInScale(scale))
    /\ UNCHANGED <<startPos, exports>>
    /\ last' = [op |-> "zoomIn", before |-> ViewOf]
    /\ UNCHANGED <<renderVars, genVars, keyVars>>

\* the zoom-out button
ZoomOut ==
    /\ SetView(offset, ZoomOutScale(scale))
    /\ UNCHANGED <<startPos, exports>>
    /\ last' = [op |-> "zoomOut", before |-> ViewOf]
    /\ UNCHANGED <<renderVars, genVars, keyVars>>

\* onWheel: only with the ctrl or meta key held
HandleWheel(deltaY, ctrlKey) ==
    /\ SetView(offset, IF ctrlKey THEN WheelScale(scale, deltaY) ELSE scale)
    /\ UNCHANGED <<startPos, exports>>
    /\ last' = [op |-> "wheel", ctrlKey |-> ctrlKey, before |-> ViewOf]
    /\ UNCHANGED <<renderVars, genVars, keyVars>>

\* setTimeout(centerDiagram, 0): the centerDiagram of the render in which
\* the button was clicked; before, html and again are history
ResetTimer ==
    [kind |-> "center", due |-> now, scale |-> scale, via |-> "resetView",
     before |-> ViewOf, html |-> diagramHTML,
     again |-> (last.op = "center" /\ last.timer.via = "resetView"
                    /\ last.direct)]

\* the reset button: setScale(1); setTimeout(centerDiagram, 0)
ResetView ==
    /\ inputs < MaxInputs
    /\ inputs' = inputs + 1
    /\ SetView(offset, 10)
    /\ timers' = Append(timers, ResetTimer)
    /\ UNCHANGED <<startPos, exports>>
    /\ last' = [op |-> "resetView", before |-> ViewOf]
    /\ UNCHANGED <<mermaidCode, theme, error, diagramHTML, mermaidTheme,
                   renders, now, epoch, calls, results, bursts, blankFires>>
    /\ UNCHANGED <<apiKey, provider, aiPrompt, showApiKeyInput, isGenerating,
                   gens, requests>>
    /\ UNCHANGED keyVars

\* where the pointer can be, in the units of offset
Pointers == {[x |-> 0, y |-> 0], [x |-> Px(3), y |-> Px(1)],
             [x |-> Px(8), y |-> Px(5)]}

\* an anchor that forgets where the diagram was
DragAnchorNoOffset(p, off) == p

\* { x: e.clientX - offset.x, y: e.clientY - offset.y }
DragAnchor(p, off) == [x |-> p.x - off.x, y |-> p.y - off.y]

\* onMouseDown: the anchor is stored and the document listeners are added;
\* down and from are history
HandleMouseDown(p) ==
    /\ inputs < MaxInputs
    /\ inputs' = inputs + 1
    /\ startPos' = [active |-> TRUE, anchor |-> DragAnchor(p, offset),
                    down |-> p, from |-> offset]
    /\ UNCHANGED <<scale, offset, transform, exports>>
    /\ last' = [op |-> "mouseDown"]
    /\ UNCHANGED renderVars
    /\ UNCHANGED <<apiKey, provider, aiPrompt, showApiKeyInput, isGenerating,
                   gens, requests>>
    /\ UNCHANGED keyVars

\* a handler that takes a missing anchor for the origin
MouseMoveOffsetUnguarded(p, sp, off) ==
    IF ~sp.active THEN p
    ELSE [x |-> p.x - sp.anchor.x, y |-> p.y - sp.anchor.y]

\* handleMouseMove: if (!startPos.current) return; setOffset(..)
MouseMoveOffset(p, sp, off) ==
    IF ~sp.active THEN off
    ELSE [x |-> p.x - sp.anchor.x, y |-> p.y - sp.anchor.y]

\* the pointer moves over the document
HandleMouseMove(p) ==
    /\ inputs < MaxInputs
    /\ inputs' = inputs + 1
    /\ SetView(MouseMoveOffset(p, startPos, offset), scale)
    /\ UNCHANGED <<startPos, exports>>
    /\ last' = [op |-> "mouseMove", dragging |-> startPos.active, p |-> p,
                start |-> startPos, before |-> ViewOf]
    /\ UNCHANGED renderVars
    /\ UNCHANGED <<apiKey, provider, aiPrompt, showApiKeyInput, isGenerating,
                   gens, requests>>
    /\ UNCHANGED keyVars

\* the button is released: startPos.current = null, the listeners removed
HandleMouseUp ==
    /\ inputs < MaxInputs
    /\ inputs' = inputs + 1
    /\ startPos' = NoDrag
    /\ UNCHANGED <<scale, offset, transform, exports>>
    /\ last' = [op |-> "mouseUp", dragging |-> startPos.active,
                before |-> ViewOf]
    /\ UNCHANGED renderVars
    /\ UNCHANGED <<apiKey, provider, aiPrompt, showApiKeyInput, isGenerating,
                   gens, requests>>
    /\ UNCHANGED keyVars

----------------------------------------------------------------------------
(* downloadDiagram(format). *)

Formats == {"svg", "png", "pdf"}

\* const pageHeight = 295
PageHeight == 295

\* imgHeight = (canvas.height * imgWidth) / canvas.width, for the canvases
\* html2canvas can return
ImgHeights == {100, PageHeight - 1, PageHeight, PageHeight + 1,
               2 * PageHeight, 2 * PageHeight + 10}

\* !diagramRef.current || !diagramContainerRef.current: both elements are
\* rendered unconditionally, the refs are attached from the mount on
RefsMissing == FALSE

\* diagramRef.current.querySelector('svg')
HasSvg(html) == html.kind = "svg"

\* the while loop: one more page while heightLeft >= 0
RECURSIVE AddPages(_, _, _)
AddPages(heightLeft, imgHeight, positions) ==
    IF heightLeft >= 0
    THEN AddPages(heightLeft - PageHeight, imgHeight,
                  Append(positions, heightLeft - imgHeight))
    ELSE positions

\* the y position of the image on each page of the document
PdfPositions(imgHeight) == AddPages(imgHeight - PageHeight, imgHeight, <<0>>)

\* downloadDiagram up to its first await; for 'svg', to its end
DownloadDiagram(format) ==
    /\ inputs < MaxInputs
    /\ inputs' = inputs + 1
    /\ IF RefsMissing
       THEN /\ UNCHANGED <<transform, exports>>
            /\ last' = [op |-> "export", format |-> format, artifact |-> FALSE,
                        file |-> FALSE, toast |-> "Download Failed"]
       ELSE IF format = "svg"
       THEN \* the transform is replaced and put back in the same task
            /\ UNCHANGED <<transform, exports>>
            /\ last' = [op |-> "export", format |-> format,
                        artifact |-> HasSvg(diagramHTML),
                        file |-> HasSvg(diagramHTML), toast |-> "Downloaded!"]
       ELSE /\ transform' = ExportTransform
            /\ exports' = Append(exports, [format |-> format,
                                           prevTransform |-> transform,
                                           artifact |-> HasSvg(diagramHTML)])
            /\ last' = [op |-> "exportStart", format |-> format,
                        before |-> ViewOf]
    /\ UNCHANGED <<scale, offset, startPos>>
    /\ UNCHANGED renderVars
    /\ UNCHANGED <<apiKey, provider, aiPrompt, showApiKeyInput, isGenerating,
                   gens, requests>>
    /\ UNCHANGED keyVars

\* finally: diagramRef.current.style.transform = prevTransform
ExportFinally(i) ==
    /\ transform' = exports[i].prevTransform
    /\ exports' = RemoveAt(exports, i)
    /\ UNCHANGED <<scale, offset, startPos>>
    /\ UNCHANGED <<renderVars, genVars, keyVars>>

\* html2canvas resolves for a PNG export: the file, the success toast
PngResolve(i) ==
    /\ i \in 1..Len(exports)
    /\ exports[i].format = "png"
    /\ ExportFinally(i)
    /\ last' = [op |-> "export", format |-> "png",
                artifact |-> exports[i].artifact, file |-> TRUE,
                toast |-> "Downloaded!"]

\* html2canvas resolves for a PDF export with a canvas of height imgHeight
\* on the page: the pages, pdf.save, the success toast
PdfResolve(i, imgHeight) ==
    /\ i \in 1..Len(exports)
    /\ exports[i].format = "pdf"
    /\ ExportFinally(i)
    /\ last' = [op |-> "export", format |-> "pdf",
                artifact |-> exports[i].artifact, file |-> TRUE,
                toast |-> "Downloaded!", imgHeight |-> imgHeight,
                positions |-> PdfPositions(imgHeight)]

\* html2canvas rejects: the catch block
ExportReject(i) ==
    /\ i \in 1..Len(exports)
    /\ ExportFinally(i)
    /\ last' = [op |-> "export", format |-> exports[i].format,
                artifact |-> exports[i].artifact, file |-> FALSE,
                toast |-> "Download Failed"]

----------------------------------------------------------------------------
(* The next-state relations.  Every specification runs the same handlers;  *)
(* they differ in the inputs the environment supplies.                     *)

\* the timers and the external renderer
RenderSys(rejections) ==
    \/ TimerFire
    \/ Tick
    \/ \E i \in 1..Len(renders) : RenderResolve(i)
    \/ \E i \in 1..Len(renders), rej \in rejections : RenderReject(i, rej)

\* the answers of the AI endpoint
GenSys(chunks) ==
    \/ \E i \in 1..Len(gens) : FetchReject(i)
    \/ \E i \in 1..Len(gens), e \in HttpErrors : FetchHttpError(i, e)
    \/ \E i \in 1..Len(gens), b \in BOOLEAN : FetchOk(i, b)
    \/ \E i \in 1..Len(gens), c \in chunks : StreamRead(i, c)
    \/ \E i \in 1..Len(gens) : StreamDone(i)
    \/ \E i \in 1..Len(gens) : StreamReject(i)
    \/ \E i \in 1..Len(gens), t \in ResponseTexts : JsonResolve(i, t)
    \/ \E i \in 1..Len(gens) : JsonReject(i)

\* an Error with a diagnostic, the usual rejection of the renderer
ParseError == [isError |-> TRUE, message |-> "Parse error"]

\* one-record chunks and the sentinel
RecordChunks ==
    { <<[t |-> "data", d |-> <<"g">>]>>, <<[t |-> "data", d |-> <<"x">>]>>,
      <<[t |-> "done", d |-> << >>]>> }

\* the render scheduler: edits, theme changes, timers, renderer
RenderNext ==
    \/ \E v \in EditTexts : EditCode(v)
    \/ \E ok \in BOOLEAN : ToggleTheme(ok)
    \/ RenderSys(Rejections)

\* the page loaded with a saved OpenAI credential
InitSaved == Init /\ apiKey = <<"k">> /\ provider = "openai"

SpecRender == InitSaved /\ [][RenderNext]_vars

\* the editor as a whole: the Fix button starts generations while the user
\* edits and the scheduler renders
Next ==
    \/ \E v \in {<<"x">>, <<"g", "g">>} : EditCode(v)
    \/ (Len(requests) < SoloGens /\ FixDiagramWithAI)
    \/ GenSys(RecordChunks)
    \/ RenderSys({ParseError})

Spec == Init /\ [][Next]_vars

\* the form: credential dialog, prompt field, AI and Fix buttons
FormNext ==
    \/ OpenKeyDialog
    \/ CloseKeyDialog
    \/ \E v \in KeyTexts : TypeApiKey(v)
    \/ \E v \in PromptTexts : TypePrompt(v)
    \/ ClickAI
    \/ FixDiagramWithAI
    \/ \E i \in 1..Len(gens) : FetchReject(i)
    \/ \E v \in {<<"x">>} : EditCode(v)
    \/ RenderSys({ParseError})

SpecForm == Init /\ [][FormNext]_vars

\* a streamed generation, every shape of chunk
StreamNext ==
    \/ (Len(requests) < SoloGens /\ FixDiagramWithAI)
    \/ \E i \in 1..Len(gens) : FetchOk(i, TRUE)
    \/ \E i \in 1..Len(gens), c \in Chunks : StreamRead(i, c)
    \/ \E i \in 1..Len(gens) : StreamDone(i)
    \/ \E i \in 1..Len(gens) : StreamReject(i)
    \/ RenderSys({ParseError})

SpecStream == InitSaved /\ [][StreamNext]_vars

\* one generation from the Fix button, for every provider and every answer
\* of the endpoint, with no edit by the user
GenNext ==
    \/ (Len(requests) < SoloGens /\ FixDiagramWithAI)
    \/ GenSys(RecordChunks)
    \/ RenderSys({ParseError})

SpecGen == Init /\ [][GenNext]_vars

\* time passes and due timers run
FairGen == SpecGen /\ WF_vars(Tick) /\ WF_vars(TimerFire)

\* two generations from the Fix button, the second while the first is
\* outstanding, streamed or buffered
RaceNext ==
    \/ FixDiagramWithAI
    \/ \E i \in 1..Len(gens), b \in BOOLEAN : FetchOk(i, b)
    \/ \E i \in 1..Len(gens), c \in RecordChunks : StreamRead(i, c)
    \/ \E i \in 1..Len(gens) : StreamDone(i)
    \/ \E i \in 1..Len(gens), t \in ResponseTexts : JsonResolve(i, t)
    \/ RenderSys({ParseError})

SpecRace == InitSaved /\ [][RaceNext]_vars

\* the credential dialog and the store: keys typed, saved, switched and
\* used, the hint dismissed, the page reloaded
KeysNext ==
    \/ OpenKeyDialog
    \/ \E v \in KeyTexts \cup {<<" ", "k">>} : TypeApiKey(v)
    \/ \E p \in Providers : SetProvider(p)
    \/ \E n \in 0..2 : SaveApiKey(n)
    \/ DismissTips
    \/ \E ok \in BOOLEAN : Reload(ok)
    \/ FixDiagramWithAI
    \/ \E i \in 1..Len(gens) : FetchReject(i)

\* the light theme, the renderer initialised or not
InitKeys == Init /\ theme = "light"

SpecKeys == InitKeys /\ [][KeysNext]_vars

\* the page loaded with a saved credential, the light theme, the renderer
\* initialised
InitView == InitSaved /\ theme = "light" /\ ~error.hasError

\* no deferred centerDiagram is pending
NoCenterPending == \A k \in 1..Len(timers) : timers[k].kind # "center"

\* the zoom controls over their whole range: buttons, wheel and reset, the
\* timers running and the renderer still at work on the first diagram
ZoomNext ==
    \/ ZoomIn
    \/ ZoomOut
    \/ \E deltaY \in {-100, 100}, ctrlKey \in BOOLEAN : HandleWheel(deltaY, ctrlKey)
    \/ (NoCenterPending /\ ResetView)
    \/ TimerFire
    \/ Tick

SpecZoom == InitView /\ [][ZoomNext]_vars

\* the reset button, clicked while no deferred centerDiagram is pending:
\* the zoom buttons within ZoomSpan steps of 1.0, the reset, an edit, while
\* the scheduler renders
ViewNext ==
    \/ (scale < 10 + ZoomSpan /\ ZoomIn)
    \/ (scale > 10 - ZoomSpan /\ ZoomOut)
    \/ (NoCenterPending /\ ResetView)
    \/ \E v \in {<<"g", "g">>} : EditCode(v)
    \/ TimerFire
    \/ Tick
    \/ \E i \in 1..Len(renders) : RenderResolve(i)

\* the drag: button down, pointer moves, button up, the zoom buttons
\* within ZoomSpan steps of 1.0, while the scheduler renders
DragNext ==
    \/ \E p \in Pointers : HandleMouseDown(p)
    \/ \E p \in Pointers : HandleMouseMove(p)
    \/ HandleMouseUp
    \/ (scale < 10 + ZoomSpan /\ ZoomIn)
    \/ (scale > 10 - ZoomSpan /\ ZoomOut)
    \/ TimerFire
    \/ Tick
    \/ \E i \in 1..Len(renders) : RenderResolve(i)

SpecDrag == InitView /\ [][DragNext]_vars

SpecView == InitView /\ [][ViewNext]_vars

\* the exports, one at a time: the three formats, the rasterizer's answers,
\* the zoom buttons within ZoomSpan steps of 1.0, an edit that does not
\* render, and the scheduler
ExportNext ==
    \/ (exports = << >> /\ \E format \in Formats : DownloadDiagram(format))
    \/ \E i \in 1..Len(exports) : PngResolve(i)
    \/ \E i \in 1..Len(exports), h \in ImgHeights : PdfResolve(i, h)
    \/ \E i \in 1..Len(exports) : ExportReject(i)
    \/ (scale < 10 + ZoomSpan /\ ZoomIn)
    \/ (scale > 10 - ZoomSpan /\ ZoomOut)
    \/ \E v \in {<<"x">>} : EditCode(v)
    \/ RenderSys({ParseError})

SpecExport == InitView /\ [][ExportNext]_vars

\* the refresh button among edits and theme changes, while the scheduler
\* renders
RefreshNext ==
    \/ RefreshDiagram
    \/ RefreshRestore
    \/ \E v \in {<<"x">>, <<"g", "g">>} : EditCode(v)
    \/ \E ok \in BOOLEAN : ToggleTheme(ok)
    \/ RenderSys({ParseError})

SpecRefresh == InitView /\ [][RefreshNext]_vars

----------------------------------------------------------------------------
(* Fairness: a due timer runs, time passes, and the external renderer      *)
(* settles every call it was given.                                        *)
FairRender ==
    /\ SpecRender
    /\ WF_vars(Tick)
    /\ WF_vars(TimerFire)
    /\ WF_vars(\E i \in 1..Len(renders) : RenderResolve(i))
    /\ WF_vars(\E i \in 1..Len(renders), rej \in Rejections : RenderReject(i, rej))

----------------------------------------------------------------------------
(* Properties. *)

\* a debounce window is open
WindowOpen == RenderTimerPending(timers)
\* debounce windows that have expired
WindowsClosed == bursts - (IF WindowOpen THEN 1 ELSE 0)
\* the calls made for the source of effect run e, and the results of call k
CallsFor(e) == { k \in 1..Len(calls) : calls[k].epoch = e }
ResultsFor(k) == { j \in 1..Len(results) : results[j].call = k }
\* every call was given the source and theme that were current when it was made
OnlyLatestRendered ==
    \A k \in 1..Len(calls) :
        calls[k].code = calls[k].latest /\ calls[k].epoch = calls[k].atEpoch
\* no timer armed, no call pending
Quiescent == ~WindowOpen /\ renders = << >>

(* C1, as stated: every debounce window that has expired made exactly one  *)
(* render call, whose argument is the last source submitted in the window. *)
C1_OneCallPerWindow ==
    /\ Len(calls) = WindowsClosed
    /\ OnlyLatestRendered

(* C1, amended: a window that expires makes exactly one render call, with  *)
(* the last submitted source as argument, when that source is not blank,   *)
(* and no call when it is empty or white space only; a source superseded   *)
(* inside its window is never passed to the renderer.                      *)
C1_Debounce ==
    /\ Len(calls) + blankFires = WindowsClosed
    /\ OnlyLatestRendered
    /\ \A k \in 1..Len(calls) : ~IsBlank(calls[k].code)

\* three changes inside the first window, one call, made for the last one
C1_Witness ==
    /\ bursts = 1 /\ ~WindowOpen
    /\ Len(calls) = 1 /\ calls[1].epoch >= 2

(* C2: once every render has completed, the preview and the error state    *)
(* are those of the render of the latest source: a completion of an older  *)
(* call does not overwrite them.                                           *)
C2_NoStaleRender ==
    (Quiescent /\ CallsFor(epoch) # {}) =>
        LET k == CHOOSE c \in CallsFor(epoch) : TRUE
        IN  IF RendererAccepts(calls[k].code)
            THEN /\ diagramHTML.kind = "svg"
                 /\ diagramHTML.id = calls[k].id
                 /\ ~error.hasError
            ELSE /\ diagramHTML.kind = "error"
                 /\ error.hasError

\* the source now current has its one call and that call its one result
FinalRendered ==
    \E k \in 1..Len(calls) :
        /\ CallsFor(epoch) = {k}
        /\ calls[k].code = mermaidCode
        /\ Cardinality(ResultsFor(k)) = 1

(* C3, as stated: at quiescence the final source has exactly one render    *)
(* call and exactly one terminal result.                                   *)
C3_OneResultForFinal == Quiescent => FinalRendered

(* C3, amended: after a burst every behaviour comes to rest; at rest a     *)
(* final source that is not blank has exactly one render call and exactly  *)
(* one terminal result, a blank one has no call; and no source superseded  *)
(* inside the burst is ever rendered.                                      *)
C3_Settles ==
    /\ [](OnlyLatestRendered
          /\ (Quiescent =>
                 IF IsBlank(mermaidCode) THEN CallsFor(epoch) = {}
                 ELSE FinalRendered))
    /\ <>[]Quiescent

\* a burst of two changes or more, at rest with its single result
C3_Witness ==
    /\ Quiescent /\ bursts = 1 /\ epoch >= 2
    /\ ~IsBlank(mermaidCode) /\ Len(results) = 1

(* C4: a failed render sets the error state, shows the placeholder and     *)
(* leaves the source as it is, equal to the rejected text when no change   *)
(* came after the call.                                                    *)
C4_FailedRender ==
    last.op = "renderFail" =>
        /\ error.hasError
        /\ diagramHTML = PlaceholderHTML(error.message)
        /\ mermaidCode = last.codeBefore
        /\ calls[last.call].epoch = epoch => mermaidCode = calls[last.call].code

C4_Witness ==
    /\ last.op = "renderFail"
    /\ calls[last.call].epoch = epoch
    /\ ~RendererAccepts(mermaidCode)

(* C5: after a render failure the message is not empty: the renderer's     *)
(* diagnostic when the rejection carries one, the generic message when it  *)
(* carries none.                                                           *)
C5_MessageNotEmpty ==
    last.op = "renderFail" =>
        /\ error.message # ""
        /\ error.message = IF last.rejection.message # ""
                           THEN last.rejection.message
                           ELSE "Invalid Mermaid syntax"

(* C6: when a render completes successfully the preview holds its artifact *)
(* and the error state is inactive.                                        *)
C6_SuccessClearsError ==
    last.op = "renderOk" =>
        /\ diagramHTML.kind = "svg"
        /\ ~error.hasError

(* C7: after an edit that changes the source the error state is inactive,  *)
(* whatever it was and while the render of the edited text is still to     *)
(* come.                                                                   *)
C7_EditClearsError == last.op = "edit" => ~error.hasError

\* the banner was up, the edit took it down, the debounce timer is armed
C7_Witness ==
    /\ last.op = "edit" /\ last.errorBefore.hasError
    /\ WindowOpen /\ ~error.hasError

(* C8: a generation asked for with a blank credential sends no request,    *)
(* opens the credential dialog and leaves the source unchanged, from the   *)
(* AI button and from the Fix button.                                      *)
C8_MissingCredential ==
    (last.op = "generate" /\ IsBlank(apiKey)) =>
        /\ last.outcome = "API Key Required"
        /\ showApiKeyInput
        /\ Len(requests) = last.sentBefore
        /\ mermaidCode = last.codeBefore

\* a credential of white space typed for a provider other than the default,
\* then the Fix button
C8_Witness ==
    /\ last.op = "generate" /\ last.via = "fix"
    /\ apiKey = <<" ">> /\ provider = "gemini"
    /\ last.outcome = "API Key Required" /\ showApiKeyInput

(* C9: the AI button pressed with a credential and a blank prompt ends in  *)
(* the empty-prompt outcome, sends no request and leaves the source        *)
(* unchanged.                                                              *)
C9_EmptyPrompt ==
    (last.op = "generate" /\ ~IsBlank(apiKey) /\ last.via = "button"
        /\ last.typedBlank) =>
        /\ last.outcome = "Prompt Required"
        /\ Len(requests) = last.sentBefore
        /\ mermaidCode = last.codeBefore

RECURSIVE Concat(_)
Concat(ds) == IF ds = << >> THEN << >> ELSE Head(ds) \o Concat(Tail(ds))
\* d1, d1+d2, ..., d1+...+dn
PrefixSums(ds) == [k \in 1..Len(ds) |-> Concat(SubSeq(ds, 1, k))]

(* C10: for a streamed response made of complete records, the values       *)
(* written to the source are, in order, the partial sums of the deltas,    *)
(* the source holds the last of them after each chunk, and at the end of   *)
(* the stream they are all the partial sums.                               *)
C10_Incremental ==
    /\ \A i \in 1..Len(gens) :
          gens[i].clean =>
              /\ gens[i].updates = PrefixSums(gens[i].delivered)
              /\ gens[i].result = Concat(gens[i].delivered)
              /\ (last.op = "streamRead" /\ last.gen = gens[i].id /\ last.wrote > 0)
                     => mermaidCode = Concat(gens[i].delivered)
    /\ (last.op = "streamDone" /\ last.clean) =>
          last.updates = PrefixSums(last.delivered)

\* three chunks of one record each: three writes, the last the whole text
C10_Witness ==
    \E i \in 1..Len(gens) :
        /\ gens[i].clean /\ gens[i].reads = 3
        /\ Len(gens[i].updates) = 3
        /\ Len(gens[i].updates[1]) = 1 /\ Len(gens[i].updates[2]) = 2
        /\ mermaidCode = gens[i].updates[3] /\ Len(mermaidCode) = 3

(* C11: a response from which no text is extracted, buffered or streamed,  *)
(* never ends in the success report: the generation ends in its catch      *)
(* block, with the error state active and the source as it was.            *)
C11_EmptyCompletion ==
    /\ last.op \in {"streamDone", "genOk"} => last.text # << >>
    /\ (last.op = "genFail" /\ last.cause.kind = "empty") =>
          error.hasError /\ mermaidCode = last.codeBefore

(* C12: a response with a non-success status sets the error state with a   *)
(* message made of the status code and the provider's message, reports no  *)
(* success (the prompt is kept, no recentring is scheduled) and leaves the  *)
(* source unchanged.                                                       *)
C12_HttpError ==
    (last.op = "genFail" /\ last.cause.kind = "http") =>
        /\ error.hasError
        /\ error.message =
              "AI Generation Failed: API Error: " \o last.cause.response.status
                  \o " - " \o (IF last.cause.response.message = ""
                               THEN "Unknown error"
                               ELSE last.cause.response.message)
        /\ mermaidCode = last.codeBefore
        /\ aiPrompt = last.promptBefore
        /\ timers = last.timersBefore

\* status 401 with the provider's words, while the render of an edit waits
C12_Witness ==
    /\ last.op = "genFail" /\ last.cause.kind = "http"
    /\ last.cause.response.message = "Incorrect API key"
    /\ mermaidCode # last.started /\ WindowOpen

(* C13: when a generation ends in failure and no edit came in between, the *)
(* source is what it was when the generation was started.                  *)
C13_FailureKeepsSource == last.op = "genFail" => mermaidCode = last.started

\* a generation has just reported success
Succeeded == last.op \in {"genOk", "streamDone"}
\* the render timer armed by the step just taken
ArmedNow(code) ==
    \E i \in 1..Len(timers) :
        /\ timers[i].kind = "render" /\ timers[i].code = code
        /\ timers[i].due = now + DebounceTicks /\ timers[i].epoch = epoch

C15_RequestContents ==
    \A k \in 1..Len(requests) :
        /\ requests[k].hasSystem
        /\ requests[k].prompt.kind \in {"text", "fix"}

(* C16: in every reachable state at most one generation request has been   *)
(* sent and not yet resolved.                                              *)
C16_SingleFlight == Len(gens) <= 1

(* C17: when the second of two overlapping generations has resolved, the   *)
(* source is the complete text of the response that resolved last.         *)
C17_LastWins ==
    (Succeeded /\ last.overlap /\ last.others = 0 /\ last.text # << >>) =>
        mermaidCode = last.text

(* C18: every request goes to the endpoint of the selected provider with   *)
(* the credential in the key field, and that credential is one loaded from *)
(* the store for this provider or typed while it was selected.             *)
C18_KeyStaysWithProvider ==
    /\ keyOf = provider
    /\ (last.op = "generate" /\ last.outcome = "fetch") =>
          /\ requests[Len(requests)].endpoint = provider
          /\ requests[Len(requests)].credential = apiKey
          /\ last.keyOf = provider

\* a key is stored for one provider; the user switched to another, typed a
\* key for it and generated
C18_Witness ==
    /\ last.op = "generate" /\ last.outcome = "fetch"
    /\ provider # StoredProvider(storage)
    /\ storage.keys[StoredProvider(storage)] # << >>
    /\ storage.keys[provider] = << >>

IsTrimOf(t, k) ==
    /\ t # << >> /\ Head(t) # " " /\ t[Len(t)] # " "
    /\ \E a \in 0..Len(k) :
          /\ a + Len(t) <= Len(k)
          /\ SubSeq(k, a + 1, a + Len(t)) = t
          /\ \A j \in (1..a) \cup ((a + Len(t) + 1)..Len(k)) : k[j] = " "

(* C20: a save of a key that is not blank stores the trimmed key under the *)
(* selected provider and stores the selection; a save of a blank key       *)
(* writes nothing; a reload ends with the stored provider selected and its *)
(* stored key in the key field.                                            *)
C20_SaveReload ==
    /\ last.op = "save" =>
          IF IsBlank(last.key)
          THEN storage = last.before /\ last.outcome = "nothing"
          ELSE last.outcome = "API Key Saved" =>
                  /\ IsTrimOf(storage.keys[last.provider], last.key)
                  /\ storage.api_provider = last.provider
    /\ last.op = "reload" =>
          /\ storage = last.before
          /\ storage.api_provider # Absent =>
                /\ provider = storage.api_provider
                /\ apiKey = storage.keys[storage.api_provider]

\* first visit: gemini selected, a key typed and saved, the page reloaded
C20_Witness ==
    /\ last.op = "reload" /\ ~storage.seen_tips
    /\ provider = "gemini" /\ apiKey = <<"k">> /\ keyOf = "gemini"
    /\ storage.keys["openai"] = << >>

----------------------------------------------------------------------------
(* The viewport and the exports. *)

\* the offset that centres the artifact at zoom factor s, the artifact
\* measured as the DOM shows it
CentredAt(s) ==
    [x |-> (Px(ContainerWidth) - 2 * SvgWidth * transform.s * s) \div 2,
     y |-> (Px(ContainerHeight) - 2 * SvgHeight * transform.s * s) \div 2]

\* the offset that centres the artifact shown at 1.0
CentredAtOne ==
    [x |-> (Px(ContainerWidth) - Px(SvgWidth)) \div 2,
     y |-> (Px(ContainerHeight) - Px(SvgHeight)) \div 2]

(* C21: an export in any of the three formats, called when no successfully *)
(* rendered artifact is current, produces no file and reports a failure.   *)
C21_NoArtifact ==
    (last.op = "export" /\ ~last.artifact) =>
        (~last.file /\ last.toast = "Download Failed")

(* C22: once no export is pending, the transform applied to the displayed  *)
(* artifact is the one of the current ViewportState, also when the         *)
(* viewport changed while the rasterization was pending.                   *)
C22_TransformRestored ==
    exports = << >> => transform = TransformOf(offset, scale)

(* C23: while an export rasterizes, the displayed artifact keeps the zoom  *)
(* scale in force.                                                         *)
C23_ScaleKept ==
    exports # << >> => transform.s = scale

(* C24: a PDF export of a bitmap of height h on the page has one page when *)
(* h <= 295 and ceil(h/295) pages otherwise, page k (from 0) showing the   *)
(* image shifted up by k*295.                                              *)
C24_PdfPages ==
    (last.op = "export" /\ last.format = "pdf" /\ last.file) =>
        LET h == last.imgHeight
            n == Len(last.positions)
        IN  /\ n = IF h <= PageHeight THEN 1
                   ELSE (h + PageHeight - 1) \div PageHeight
            /\ \A k \in 1..n : last.positions[k] = -((k - 1) * PageHeight)

(* C25: the zoom factor stays within [0.2, 3.0] whatever sequence of zoom  *)
(* buttons, wheel events and resets is applied.                            *)
C25_ScaleInRange == scale \in MinScale..MaxScale

\* a zoom-in at the upper limit and a zoom-out at the lower limit
C25_Witness ==
    \/ last.op = "zoomIn" /\ last.before.scale = MaxScale /\ scale = MaxScale
    \/ last.op = "zoomOut" /\ last.before.scale = MinScale /\ scale = MinScale

\* the offset that centres the artifact at zoom factor s, the artifact
\* measured before any transform
CentredNatural(s) ==
    [x |-> (Px(ContainerWidth) - 20 * SvgWidth * s) \div 2,
     y |-> (Px(ContainerHeight) - 20 * SvgHeight * s) \div 2]

\* the step taken last is the deferred centerDiagram of a resetView that
\* nothing came between, over a rendered diagram
ResetCompleted ==
    /\ last.op = "center"
    /\ last.timer.via = "resetView"
    /\ last.direct
    /\ HasSvg(diagramHTML)

(* C26: with the artifact unchanged, the viewport after two consecutive    *)
(* resetView calls, each run to completion with its deferred recenter,     *)
(* equals the viewport after one.                                          *)
C26_ResetIdempotent ==
    (ResetCompleted /\ last.timer.again /\ last.timer.html = diagramHTML) =>
        /\ scale = last.timer.before.scale
        /\ offset = last.timer.before.offset

(* C27: after resetView and its deferred recenter, scale = 1 and the       *)
(* offset is the centred position computed with scale 1, whatever the      *)
(* scale was before the call.                                              *)
C27_ResetCentres ==
    ResetCompleted => (scale = 10 /\ offset = CentredAtOne)

(* C28: a successful render sets the offset to the centred position of the *)
(* new artifact computed with the scale current at that moment, also when  *)
(* a zoom changed the scale after the render was scheduled.  The artifact  *)
(* bounds are taken either as measured on screen or before any transform.  *)
C28_RenderRecentres ==
    last.op = "renderOk" =>
        (offset = CentredAt(scale) \/ offset = CentredNatural(scale))

(* C29: while a drag is active, a pointer move to p sets the offset to     *)
(* p - (p0 - o0), p0 the pointer position and o0 the offset at the start   *)
(* of the drag, and leaves the zoom factor as it is.                       *)
C29_DragLaw ==
    (last.op = "mouseMove" /\ last.dragging) =>
        /\ offset = [x |-> last.p.x - (last.start.down.x - last.start.from.x),
                     y |-> last.p.y - (last.start.down.y - last.start.from.y)]
        /\ scale = last.before.scale

\* a drag that starts away from the origin, on a centred diagram, and
\* moves the pointer
C29_Witness ==
    /\ last.op = "mouseMove" /\ last.dragging
    /\ last.start.from # [x |-> 0, y |-> 0]
    /\ last.start.down # [x |-> 0, y |-> 0]
    /\ last.p # last.start.down
    /\ offset # last.before.offset

(* C30: with no drag active, a pointer move changes nothing of the         *)
(* viewport, and a release of the button changes nothing either.           *)
C30_NoDragNoChange ==
    (last.op \in {"mouseMove", "mouseUp"} /\ ~last.dragging) =>
        /\ ViewOf = last.before
        /\ startPos = NoDrag

\* a pointer move after a drag has ended, away from where the view is
C30_Witness ==
    /\ last.op = "mouseMove" /\ ~last.dragging
    /\ last.p # offset
    /\ offset # [x |-> 0, y |-> 0]

----------------------------------------------------------------------------
(* The session as a whole. *)

(* C31: the identifiers passed to the external renderer are pairwise       *)
(* distinct across all render calls, for every timing of edits, theme      *)
(* changes and refreshes.                                                  *)
C31_DistinctIds ==
    \A j, k \in 1..Len(calls) : j # k => calls[j].id # calls[k].id

\* a second render call, made for the source a refresh put back
C31_Witness ==
    /\ last.op = "renderStart"
    /\ Len(calls) = 2
    /\ calls[1].code = defaultDiagram
    /\ calls[2].code = defaultDiagram
    /\ calls[2].epoch = 2

(* C36: once the deferred step of a refresh has run, the source is the     *)
(* value written last by the user, also when the user edited the source    *)
(* after the click.  The texts the user types here end in no blank and     *)
(* the touch of a refresh appends one: a source that ends in no blank when *)
(* the deferred step runs was written by the user after the touch, or put  *)
(* back by an earlier refresh.                                             *)
C36_RefreshKeepsSource ==
    (last.op = "refreshDone" /\ last.codeBefore = TrimRight(last.codeBefore)) =>
        mermaidCode = last.codeBefore

(* C32: a theme change re-initialises the renderer with the new theme and, *)
(* once the debounce delay has passed, has caused one render call of the   *)
(* current source.                                                         *)
C32_ThemeRerenders ==
    /\ (last.op = "theme" /\ last.initOk) => mermaidTheme = theme
    /\ (last.op = "renderStart" /\ last.timer.by.op = "theme") =>
          /\ Len(calls) = Len(last.callsBefore) + 1
          /\ calls[Len(calls)].code = mermaidCode

(* C32, amended: a theme change calls the initialisation with the new      *)
(* theme, which sets the error banner when it fails, and arms the debounce *)
(* timer; when the timer expires, no change having come in between, one    *)
(* render call is made for the current source with the new theme if the    *)
(* source is not blank, after an initialisation that succeeded was done,   *)
(* and none if it is blank.                                                *)
C32_ThemeChange ==
    /\ last.op = "theme" =>
          /\ IF last.initOk THEN mermaidTheme = theme /\ error = last.errorBefore
             ELSE error = InitError
          /\ timers # << >>
          /\ LET t == timers[Len(timers)]
             IN  /\ t.kind = "render" /\ t.theme = theme /\ t.code = mermaidCode
                 /\ t.due = now + DebounceTicks
    /\ (last.op = "renderStart" /\ last.timer.by.op = "theme") =>
          /\ last.timer.theme = theme
          /\ IF last.blank THEN calls = last.callsBefore
             ELSE /\ Len(calls) = Len(last.callsBefore) + 1
                  /\ SubSeq(calls, 1, Len(calls) - 1) = last.callsBefore
                  /\ calls[Len(calls)].code = mermaidCode
                  /\ calls[Len(calls)].theme = theme
                  /\ last.timer.by.initOk => mermaidTheme = theme

\* the debounce timer of a theme change to dark expires on a source that
\* rendered before: the second call
C32_Witness ==
    /\ last.op = "renderStart" /\ last.timer.by.op = "theme" /\ ~last.blank
    /\ theme = "dark" /\ mermaidTheme = "dark"
    /\ Len(calls) = 2 /\ calls[1].theme = "light"


(* C33: an active error state is cleared only by an edit of the source or  *)
(* by a successful render or generation: a step that starts a generation   *)
(* or starts a render leaves an active error state active, with its        *)
(* message.                                                                *)
C33_ErrorKept ==
    (last.op \in {"generate", "renderStart"} /\ last.errorBefore.hasError)
        => error = last.errorBefore

(* C34: no user action ends in an exception that no handler catches: the   *)
(* checks of generateDiagramWithAI, with the argument the control passes,  *)
(* end in a notification or in the request, never in a TypeError thrown    *)
(* before the try block.                                                   *)
C34_NoUncaught ==
    last.op = "generate" => last.outcome \in {"API Key Required", "Prompt Required", "fetch"}

(* C35: when the debounce expires on a source that is empty or whitespace, *)
(* no render call is made and the diagram container is empty.              *)
C35_BlankClears ==
    (last.op = "renderStart" /\ last.blank)
        => /\ calls = last.callsBefore
           /\ diagramHTML = EmptyHTML

(* C39: the busy flag is true exactly while at least one generation        *)
(* request is outstanding.                                                 *)
C39_BusyExact == isGenerating <=> gens # << >>


(* C37: the generation the Fix button issues carries a prompt made of the  *)
(* source and of the message of the error state as they are at the click.  *)
C37_FixRequest ==
    (last.op = "generate" /\ last.via = "fix" /\ last.outcome = "fetch")
        => requests[Len(requests)].prompt
               = [kind |-> "fix", error |-> last.errorBefore.message,
                  code |-> last.codeBefore]


(* C38: the streamed text is the concatenation of the deltas of all the    *)
(* records that precede the sentinel, however the transport cuts the       *)
(* stream into chunks: no record that precedes the sentinel is dropped     *)
(* because it straddles two chunks, and no record of a chunk that follows  *)
(* the sentinel is added.                                                  *)
C38_StreamText ==
    last.op = "streamRead"
        => /\ last.dropped = 0
           /\ last.afterDone => last.wrote = 0

====
